---------------------------- MODULE Spec2Model ----------------------------
(***************************************************************************)
(* Monte Carlo Tree Search over Tic-Tac-Toe (mcts/src/core.rs on top of    *)
(* tic_tac_toe/src/game.rs and board.rs).                                  *)
(*                                                                         *)
(* The tree is an arena: `nodes` is the sequence of all MCTN values, a     *)
(* reference (Rc / Weak) is the index of the node, 0 stands for None.      *)
(* f64 statistics: visits is a whole number; wins only ever receives 1.0   *)
(* and 0.5, so it is stored in halves (wins = 3 means 1.5).                *)
(***************************************************************************)
EXTENDS Integers, Sequences, FiniteSets, TLC

\* ------------------------------------------------------------ bounds
\* Largest number of nodes the arena may hold.
MaxNodes == 3
\* Largest number of results folded into the root.
MaxVisits == 2
\* Largest row or column index passed to Game::play (the board ends at 2).
MaxIndex == 3
\* Largest number of empty cells of the game a search is started on.
MaxEmpty == 2

\* ------------------------------------------------------------ board.rs
Idx == 0..2

\* enum Cell { X, O, Empty }
Cell == {"X", "O", "Empty"}

\* Board::new
BoardNew == [r \in Idx |-> [c \in Idx |-> "Empty"]]

\* Board::get_cell; "None" stands for the Err of an out-of-bound location.
GetCell(cells, row_index, col_index) ==
    IF row_index \in Idx /\ col_index \in Idx
    THEN cells[row_index][col_index]
    ELSE "None"

\* Board::mark
Mark(cells, mark, row_index, col_index) ==
    IF ~(row_index \in Idx /\ col_index \in Idx)
    THEN [err |-> "OutOfBound", cells |-> cells]
    ELSE IF cells[row_index][col_index] = "Empty"
         THEN [err |-> "none",
               cells |-> [cells EXCEPT ![row_index][col_index] = mark]]
         ELSE [err |-> "NonEmptyCell", cells |-> cells]

\* ------------------------------------------------------------ game.rs
GameTurn == {"TurnX", "TurnO"}
GameState == {"Ongoing", "XWon", "OWon", "Tie"}
Terminal == {"XWon", "OWon", "Tie"}

\* Game::new
GameNew == [board |-> BoardNew, turn |-> "TurnX", state |-> "Ongoing"]

\* Game::is_over
IsOver(g) == g.state # "Ongoing"

\* Game::get_turn, Game::get_state
GetTurn(g) == g.turn
GetState(g) == g.state

\* Faulty variant of the array of paths: the second diagonal is missing (the
\* first one is there twice).
PathsOneDiagonal ==
    << << <<0, 0>>, <<0, 1>>, <<0, 2>> >>,
       << <<1, 0>>, <<1, 1>>, <<1, 2>> >>,
       << <<2, 0>>, <<2, 1>>, <<2, 2>> >>,
       << <<0, 0>>, <<1, 0>>, <<2, 0>> >>,
       << <<0, 1>>, <<1, 1>>, <<2, 1>> >>,
       << <<0, 2>>, <<1, 2>>, <<2, 2>> >>,
       << <<0, 0>>, <<1, 1>>, <<2, 2>> >>,
       << <<0, 0>>, <<1, 1>>, <<2, 2>> >> >>

\* The eight win paths of update_state, in the order of the array.
Paths ==
    << << <<0, 0>>, <<0, 1>>, <<0, 2>> >>,
       << <<1, 0>>, <<1, 1>>, <<1, 2>> >>,
       << <<2, 0>>, <<2, 1>>, <<2, 2>> >>,
       << <<0, 0>>, <<1, 0>>, <<2, 0>> >>,
       << <<0, 1>>, <<1, 1>>, <<2, 1>> >>,
       << <<0, 2>>, <<1, 2>>, <<2, 2>> >>,
       << <<0, 0>>, <<1, 1>>, <<2, 2>> >>,
       << <<0, 2>>, <<1, 1>>, <<2, 0>> >> >>

\* Game::check_win: (x_streak, o_streak) of one path.
CheckWin(cells, path) ==
    << Cardinality({i \in 1..3 : GetCell(cells, path[i][1], path[i][2]) = "X"}),
       Cardinality({i \in 1..3 : GetCell(cells, path[i][1], path[i][2]) = "O"}) >>

\* Faulty variant of the loop of update_state: found_empty is not consulted,
\* so a full board without a win stays Ongoing.
RECURSIVE UpdateLoopNoTie(_, _, _)
UpdateLoopNoTie(cells, i, found_empty) ==
    IF i > Len(Paths)
    THEN "Ongoing"
    ELSE LET s == CheckWin(cells, Paths[i])
         IN  IF s[1] = 3 THEN "XWon"
             ELSE IF s[2] = 3 THEN "OWon"
             ELSE UpdateLoopNoTie(cells, i + 1, found_empty)

\* The loop of update_state from path i on; found_empty is the flag so far.
RECURSIVE UpdateLoop(_, _, _)
UpdateLoop(cells, i, found_empty) ==
    IF i > Len(Paths)
    THEN IF ~found_empty THEN "Tie" ELSE "Ongoing"
    ELSE LET s == CheckWin(cells, Paths[i])
         IN  IF s[1] = 3 THEN "XWon"
             ELSE IF s[2] = 3 THEN "OWon"
             ELSE UpdateLoop(cells, i + 1, found_empty \/ (s[1] + s[2] < 3))

\* Game::update_state (called on an Ongoing game only): the new state.
UpdateState(cells) == UpdateLoop(cells, 1, FALSE)

\* Faulty variant of play: the turn is handed over before the mark is
\* tried, so a rejected mark leaves the turn switched.
GamePlayTurnFirst(g, row_index, col_index) ==
    IF g.state # "Ongoing"
    THEN [err |-> "GameIsOver", game |-> g]
    ELSE LET m == Mark(g.board, IF g.turn = "TurnX" THEN "X" ELSE "O",
                       row_index, col_index)
             turn == IF g.turn = "TurnX" THEN "TurnO" ELSE "TurnX"
         IN  IF m.err # "none"
             THEN [err |-> m.err, game |-> [g EXCEPT !.turn = turn]]
             ELSE [err |-> "none",
                   game |-> [board |-> m.cells,
                             turn |-> turn,
                             state |-> UpdateState(m.cells)]]

\* Faulty variant of play: the turn is handed over only while the game goes
\* on, so the play that ends the game leaves the turn with its player.
GamePlayNoFlipAtEnd(g, row_index, col_index) ==
    IF g.state # "Ongoing"
    THEN [err |-> "GameIsOver", game |-> g]
    ELSE LET m == Mark(g.board, IF g.turn = "TurnX" THEN "X" ELSE "O",
                       row_index, col_index)
             state == UpdateState(m.cells)
             other == IF g.turn = "TurnX" THEN "TurnO" ELSE "TurnX"
         IN  IF m.err # "none"
             THEN [err |-> m.err, game |-> g]
             ELSE [err |-> "none",
                   game |-> [board |-> m.cells,
                             turn |-> IF state = "Ongoing" THEN other
                                      ELSE g.turn,
                             state |-> state]]

\* Game::play: the error ("none" for Ok) and the game afterwards.
GamePlay(g, row_index, col_index) ==
    IF g.state # "Ongoing"
    THEN [err |-> "GameIsOver", game |-> g]
    ELSE LET m == Mark(g.board, IF g.turn = "TurnX" THEN "X" ELSE "O",
                       row_index, col_index)
         IN  IF m.err # "none"
             THEN [err |-> m.err, game |-> g]
             ELSE [err |-> "none",
                   game |-> [board |-> m.cells,
                             turn |-> IF g.turn = "TurnX" THEN "TurnO" ELSE "TurnX",
                             state |-> UpdateState(m.cells)]]

\* Game::get_played: play on a clone.
GetPlayed(g, row_index, col_index) == GamePlay(g, row_index, col_index)

\* Faulty variant of the flat_map: the locations column by column.
AllCellsColumnMajor ==
    << <<0, 0>>, <<1, 0>>, <<2, 0>>,
       <<0, 1>>, <<1, 1>>, <<2, 1>>,
       <<0, 2>>, <<1, 2>>, <<2, 2>> >>

\* The locations in the order of the flat_map: upper left to bottom right.
AllCells ==
    << <<0, 0>>, <<0, 1>>, <<0, 2>>,
       <<1, 0>>, <<1, 1>>, <<1, 2>>,
       <<2, 0>>, <<2, 1>>, <<2, 2>> >>

\* The filter of get_possible_plays over the locations from i on.
RECURSIVE FilterEmpty(_, _)
FilterEmpty(cells, i) ==
    IF i > Len(AllCells) THEN << >>
    ELSE LET rest == FilterEmpty(cells, i + 1)
         IN  IF GetCell(cells, AllCells[i][1], AllCells[i][2]) = "Empty"
             THEN << AllCells[i] >> \o rest
             ELSE rest

\* Faulty variant of get_possible_plays: the is_over test is missing, so the
\* empty cells of a finished game are returned.
GetPossiblePlaysNoOverCheck(g) == FilterEmpty(g.board, 1)

\* Game::get_possible_plays
GetPossiblePlays(g) ==
    IF IsOver(g) THEN << >> ELSE FilterEmpty(g.board, 1)

\* A game after a sequence of (successful) plays from a new game.
RECURSIVE PlayAll(_, _)
PlayAll(g, plays) ==
    IF plays = << >> THEN g
    ELSE PlayAll(GamePlay(g, plays[1][1], plays[1][2]).game, Tail(plays))


\* ------------------------------------------------------------ core.rs: f64
\* Resolution of the fixed-point stand-in for f64 scores: a score s is held
\* as the whole number s * Scale.  The order of two scores of siblings is
\* the order of the f64 values for every parent with at most Len(LnTab)
\* visits.
Scale == 10000

\* f64::ln of 1, 2, ..., 15, times Scale.
LnTab ==
    << 0, 6931, 10986, 13863, 16094, 17918, 19459, 20794, 21972, 23026,
       23979, 24849, 25649, 26391, 27081 >>

\* A f64 score: a number, NaN or +infinity.
Num(x) == [kind |-> "num", val |-> x]
NaN == [kind |-> "nan", val |-> 0]
Inf == [kind |-> "inf", val |-> 0]

\* Variant of the comparison: a >= b on f64, which lets a score equal to the
\* running maximum through.
Ge(a, b) ==
    /\ a.kind # "nan"
    /\ b.kind # "nan"
    /\ \/ a.kind = "inf"
       \/ a.kind = "num" /\ b.kind = "num" /\ a.val >= b.val

\* a > b on f64: false as soon as one side is NaN.
Gt(a, b) ==
    /\ a.kind # "nan"
    /\ b.kind # "nan"
    /\ \/ a.kind = "inf" /\ b.kind = "num"
       \/ a.kind = "num" /\ b.kind = "num" /\ a.val > b.val

\* Newton's iteration for the whole part of the square root of n > 0, from a
\* guess x that is not below it.
RECURSIVE SqrtLoop(_, _)
SqrtLoop(n, x) ==
    LET y == (x + n \div x) \div 2
    IN  IF y >= x THEN x ELSE SqrtLoop(n, y)

\* f64::sqrt of n / Scale^2, times Scale (n < 9 * Scale^2).
Sqrt(n) == IF n = 0 THEN 0 ELSE SqrtLoop(n, 3 * Scale)

\* Variant of uct after the usual UCT rule: a child that was never visited
\* scores +inf and so is tried first.
UctUnseenFirst(parent_visits, child_wins, child_visits) ==
    IF child_visits = 0
    THEN Inf
    ELSE IF parent_visits = 0
    THEN NaN
    ELSE Num((child_wins * Scale) \div (2 * child_visits)
             + Sqrt((2 * LnTab[parent_visits] * Scale) \div child_visits))

\* MCTN::uct.  child_wins is in halves.  With child_visits = 0 the win rate
\* is 0/0 = NaN (or +inf when wins > 0) and the exploration term is
\* sqrt(-inf) = NaN, sqrt(0/0) = NaN or +inf; with parent_visits = 0 it is
\* sqrt(ln 0 / v) = sqrt(-inf) = NaN.
Uct(parent_visits, child_wins, child_visits) ==
    IF child_visits = 0
    THEN IF child_wins > 0 /\ parent_visits > 1 THEN Inf ELSE NaN
    ELSE IF parent_visits = 0
    THEN NaN
    ELSE Num((child_wins * Scale) \div (2 * child_visits)
             + Sqrt((2 * LnTab[parent_visits] * Scale) \div child_visits))

\* ------------------------------------------------------------ core.rs: MCTN
\* wins += 1.0 and wins += 0.5, in halves.
WinCredit == 2
TieCredit == 1

NoMove == << >>

\* MCTN::new: the node of a fresh root.
MctnNew(game_state) ==
    [game |-> game_state, parent |-> 0, move_from_parent |-> NoMove,
     children |-> << >>, wins |-> 0, visits |-> 0]

\* Faulty variant of the loop of select_node: uct >= max_uct, so a child
\* whose score equals the initial maximum 0.0 is taken.
RECURSIVE SelectLoopGe(_, _, _, _, _)
SelectLoopGe(ns, node, i, max_uct, max_uct_child) ==
    IF i > Len(ns[node].children) THEN max_uct_child
    ELSE LET child == ns[node].children[i]
             uct == Uct(ns[node].visits, ns[child].wins, ns[child].visits)
         IN  IF Ge(uct, max_uct)
             THEN SelectLoopGe(ns, node, i + 1, uct, child)
             ELSE SelectLoopGe(ns, node, i + 1, max_uct, max_uct_child)

\* The for loop of select_node over the children of node from position i on:
\* the child kept in max_uct_child (0 for None).
RECURSIVE SelectLoop(_, _, _, _, _)
SelectLoop(ns, node, i, max_uct, max_uct_child) ==
    IF i > Len(ns[node].children) THEN max_uct_child
    ELSE LET child == ns[node].children[i]
             uct == Uct(ns[node].visits, ns[child].wins, ns[child].visits)
         IN  IF Gt(uct, max_uct)
             THEN SelectLoop(ns, node, i + 1, uct, child)
             ELSE SelectLoop(ns, node, i + 1, max_uct, max_uct_child)

\* MCTN::select_node
RECURSIVE SelectNode(_, _)
SelectNode(ns, node) ==
    LET max_uct_child == SelectLoop(ns, node, 1, Num(0), 0)
    IN  IF max_uct_child # 0 THEN SelectNode(ns, max_uct_child) ELSE node

\* Faulty variant of MCTN::play: the child is inserted at the front of the
\* parent's children.
MctnPlayInsertFront(ns, parent, play_row_index, play_col_index) ==
    LET played == GetPlayed(ns[parent].game, play_row_index, play_col_index)
        child == [game |-> played.game, wins |-> 0, visits |-> 0,
                  children |-> << >>,
                  move_from_parent |-> <<play_row_index, play_col_index>>,
                  parent |-> parent]
        id == Len(ns) + 1
    IN  IF played.err # "none"
        THEN [err |-> "UnwrapOnErr", nodes |-> ns]
        ELSE [err |-> "none",
              nodes |-> Append([ns EXCEPT ![parent].children = <<id>> \o @],
                               child)]

\* Faulty variant of play: the child is made without the reference to its
\* parent.
MctnPlayNoBackRef(ns, parent, play_row_index, play_col_index) ==
    LET played == GetPlayed(ns[parent].game, play_row_index, play_col_index)
        child == [game |-> played.game, wins |-> 0, visits |-> 0,
                  children |-> << >>,
                  move_from_parent |-> <<play_row_index, play_col_index>>,
                  parent |-> 0]
        id == Len(ns) + 1
    IN  IF played.err # "none"
        THEN [err |-> "UnwrapOnErr", nodes |-> ns]
        ELSE [err |-> "none",
              nodes |-> Append([ns EXCEPT ![parent].children = Append(@, id)],
                               child)]

\* Faulty variant of play: the child gets a clone of the parent's game, on
\* which the move is not played.
MctnPlayKeepsGame(ns, parent, play_row_index, play_col_index) ==
    LET played == GetPlayed(ns[parent].game, play_row_index, play_col_index)
        child == [game |-> ns[parent].game, wins |-> 0, visits |-> 0,
                  children |-> << >>,
                  move_from_parent |-> <<play_row_index, play_col_index>>,
                  parent |-> parent]
        id == Len(ns) + 1
    IN  IF played.err # "none"
        THEN [err |-> "UnwrapOnErr", nodes |-> ns]
        ELSE [err |-> "none",
              nodes |-> Append([ns EXCEPT ![parent].children = Append(@, id)],
                               child)]

\* MCTN::play: get_played(..).unwrap() panics on an Err; otherwise the child
\* is pushed at the end of the parent's children.
MctnPlay(ns, parent, play_row_index, play_col_index) ==
    LET played == GetPlayed(ns[parent].game, play_row_index, play_col_index)
        child == [game |-> played.game, wins |-> 0, visits |-> 0,
                  children |-> << >>,
                  move_from_parent |-> <<play_row_index, play_col_index>>,
                  parent |-> parent]
        id == Len(ns) + 1
    IN  IF played.err # "none"
        THEN [err |-> "UnwrapOnErr", nodes |-> ns]
        ELSE [err |-> "none",
              nodes |-> Append([ns EXCEPT ![parent].children = Append(@, id)],
                               child)]

\* The for loop of expand_node over possible_plays from position i on.
RECURSIVE ExpandLoop(_, _, _, _)
ExpandLoop(ns, node, possible_plays, i) ==
    IF i > Len(possible_plays) THEN [err |-> "none", nodes |-> ns]
    ELSE LET p == MctnPlay(ns, node, possible_plays[i][1], possible_plays[i][2])
         IN  IF p.err # "none" THEN p
             ELSE ExpandLoop(p.nodes, node, possible_plays, i + 1)

\* Faulty variant of expand_node: the test for existing children is missing.
ExpandNodeNoCheck(ns, node) ==
    ExpandLoop(ns, node, GetPossiblePlays(ns[node].game), 1)

\* MCTN::expand_node
ExpandNode(ns, node) ==
    IF Len(ns[node].children) > 0
    THEN [err |-> "ExpandNonLeaf", nodes |-> ns]
    ELSE ExpandLoop(ns, node, GetPossiblePlays(ns[node].game), 1)

\* MCTN::simulate_playout: the results the random playout of a clone of the
\* game can return, over every sequence of random choices.
RECURSIVE SimulatePlayout(_)
SimulatePlayout(g) ==
    IF IsOver(g) THEN {GetState(g)}
    ELSE LET possible_plays == GetPossiblePlays(g)
         IN  UNION {SimulatePlayout(GamePlay(g, possible_plays[i][1],
                                             possible_plays[i][2]).game)
                    : i \in 1..Len(possible_plays)}

\* Faulty variant of the match: a win is credited to the node where the
\* winner is on move.
CreditWinnerOnMove(node_player, game_result) ==
    CASE game_result = "XWon" -> IF node_player = "TurnX" THEN WinCredit ELSE 0
      [] game_result = "OWon" -> IF node_player = "TurnX" THEN 0 ELSE WinCredit
      [] game_result = "Tie"  -> TieCredit

\* Faulty variant of the match: the TurnO arm of Tie misses wins += 0.5.
CreditTieOnlyX(node_player, game_result) ==
    CASE game_result = "XWon" -> IF node_player = "TurnX" THEN 0 ELSE WinCredit
      [] game_result = "OWon" -> IF node_player = "TurnX" THEN WinCredit ELSE 0
      [] game_result = "Tie"  -> IF node_player = "TurnX" THEN TieCredit ELSE 0

\* Faulty variant of the match: a loss takes a win away from the node where
\* the winner is on move.
CreditPenalizesLoss(node_player, game_result) ==
    CASE game_result = "XWon" ->
             IF node_player = "TurnX" THEN 0 - WinCredit ELSE WinCredit
      [] game_result = "OWon" ->
             IF node_player = "TurnX" THEN WinCredit ELSE 0 - WinCredit
      [] game_result = "Tie"  -> TieCredit

\* Faulty variant of the match: a tie counts as a win for both players.
CreditTieAsWin(node_player, game_result) ==
    CASE game_result = "XWon" -> IF node_player = "TurnX" THEN 0 ELSE WinCredit
      [] game_result = "OWon" -> IF node_player = "TurnX" THEN WinCredit ELSE 0
      [] game_result = "Tie"  -> WinCredit

\* The match of backpropagate on one node: what is added to wins.
Credit(node_player, game_result) ==
    CASE game_result = "XWon" -> IF node_player = "TurnX" THEN 0 ELSE WinCredit
      [] game_result = "OWon" -> IF node_player = "TurnX" THEN WinCredit ELSE 0
      [] game_result = "Tie"  -> TieCredit

\* Faulty variant of backpropagate: the parent is updated but the walk does
\* not go on from it.
BackpropagateStopsAtParent(ns, node, game_result) ==
    IF game_result \notin Terminal
    THEN [err |-> "BackpropagateOngoing", nodes |-> ns]
    ELSE LET parent == ns[node].parent
             upd == [ns EXCEPT ![node].visits = @ + 1,
                               ![node].wins = @ + Credit(GetTurn(ns[node].game),
                                                         game_result)]
         IN  IF parent # 0
             THEN [err |-> "none",
                   nodes |-> [upd EXCEPT
                       ![parent].visits = @ + 1,
                       ![parent].wins = @ + Credit(GetTurn(ns[parent].game),
                                                   game_result)]]
             ELSE [err |-> "none", nodes |-> upd]

\* Faulty variant of backpropagate: visits is incremented before the match,
\* so a panic on Ongoing leaves the increment behind.
RECURSIVE BackpropagateVisitsFirst(_, _, _)
BackpropagateVisitsFirst(ns, node, game_result) ==
    LET counted == [ns EXCEPT ![node].visits = @ + 1]
    IN  IF game_result \notin Terminal
        THEN [err |-> "BackpropagateOngoing", nodes |-> counted]
        ELSE LET upd == [counted EXCEPT
                            ![node].wins = @ + Credit(GetTurn(ns[node].game),
                                                      game_result)]
             IN  IF ns[node].parent # 0
                 THEN BackpropagateVisitsFirst(upd, ns[node].parent, game_result)
                 ELSE [err |-> "none", nodes |-> upd]

\* Faulty variant of backpropagate: the arms that credit a full win miss
\* visits += 1.0.
RECURSIVE BackpropagateWinWithoutVisit(_, _, _)
BackpropagateWinWithoutVisit(ns, node, game_result) ==
    IF game_result \notin Terminal
    THEN [err |-> "BackpropagateOngoing", nodes |-> ns]
    ELSE LET credit == Credit(GetTurn(ns[node].game), game_result)
             upd == [ns EXCEPT ![node].visits =
                                   IF credit = WinCredit THEN @ ELSE @ + 1,
                               ![node].wins = @ + credit]
         IN  IF ns[node].parent # 0
             THEN BackpropagateWinWithoutVisit(upd, ns[node].parent, game_result)
             ELSE [err |-> "none", nodes |-> upd]

\* Faulty variant of backpropagate: the walk ends when it reaches the node
\* without parent, which is not updated unless the walk started there.
RECURSIVE BackpropagateSkipsRoot(_, _, _)
BackpropagateSkipsRoot(ns, node, game_result) ==
    IF game_result \notin Terminal
    THEN [err |-> "BackpropagateOngoing", nodes |-> ns]
    ELSE LET upd == [ns EXCEPT ![node].visits = @ + 1,
                               ![node].wins = @ + Credit(GetTurn(ns[node].game),
                                                         game_result)]
             parent == ns[node].parent
         IN  IF parent # 0 /\ ns[parent].parent # 0
             THEN BackpropagateSkipsRoot(upd, parent, game_result)
             ELSE [err |-> "none", nodes |-> upd]

\* MCTN::backpropagate
RECURSIVE Backpropagate(_, _, _)
Backpropagate(ns, node, game_result) ==
    IF game_result \notin Terminal
    THEN [err |-> "BackpropagateOngoing", nodes |-> ns]
    ELSE LET node_player == GetTurn(ns[node].game)
             upd == [ns EXCEPT ![node].visits = @ + 1,
                               ![node].wins = @ + Credit(node_player, game_result)]
         IN  IF ns[node].parent # 0
             THEN Backpropagate(upd, ns[node].parent, game_result)
             ELSE [err |-> "none", nodes |-> upd]

\* The for loop of mcts_update over the children from position i on;
\* results[i] is what simulate_playout returned for child i.
RECURSIVE UpdateChildren(_, _, _, _)
UpdateChildren(ns, children, results, i) ==
    IF i > Len(children) THEN [err |-> "none", nodes |-> ns]
    ELSE LET b == Backpropagate(ns, children[i], results[i])
         IN  IF b.err # "none" THEN b
             ELSE UpdateChildren(b.nodes, children, results, i + 1)

\* mcts_update that plays out and backpropagates the first new child only.
MctsUpdateFirstChildOnly(ns, root, results) ==
    LET leaf == SelectNode(ns, root)
        e == ExpandNode(ns, leaf)
    IN  IF e.err # "none" \/ e.nodes[leaf].children = << >> THEN e
        ELSE UpdateChildren(e.nodes,
                            <<e.nodes[leaf].children[1]>>, results, 1)

\* MCTN::mcts_update, given the results of the playouts.
MctsUpdate(ns, root, results) ==
    LET leaf == SelectNode(ns, root)
        e == ExpandNode(ns, leaf)
    IN  IF e.err # "none" THEN e
        ELSE UpdateChildren(e.nodes, e.nodes[leaf].children, results, 1)

\* ------------------------------------------------------------ the program
VARIABLES
    nodes,  \* the arena of MCTN values; nodes[1] is the root
    err,    \* "none", or the panic that ended the program
    last,   \* the last call: its name, arguments and return value
    pre,    \* the arena as it was when the last call was made
    game,   \* a Game value of its own (let mut game = Game::new())
    gpre,   \* game as it was when the last call on it was made
    sim     \* the frame of simulate_playout: its position, node and locals

vars == <<nodes, err, last, pre, game, gpre, sim>>

\* No frame of simulate_playout: none was started, or another call was made
\* since it returned.
SimIdle == [pc |-> "idle", node |-> 0, cloned_game |-> GameNew, moves |-> 0]

\* The program is single-threaded: a call starts when no other is running.
Ready == err = "none" /\ sim.pc # "loop"

\* The plays of test_tie, test_x_won_horizontal and test_o_won_vertical of
\* game.rs.
TiePlays ==
    << <<2, 0>>, <<1, 1>>, <<2, 2>>, <<2, 1>>, <<1, 2>>, <<1, 0>>,
       <<0, 1>>, <<0, 2>>, <<0, 0>> >>
XWonPlays == << <<0, 0>>, <<1, 0>>, <<0, 1>>, <<1, 1>>, <<0, 2>> >>
OWonPlays == << <<0, 0>>, <<0, 1>>, <<0, 2>>, <<1, 1>>, <<1, 0>>, <<2, 1>> >>

\* The games the root is built on, each reached from a new game by plays:
\* two, one and no empty cell left, and a win of either player.
RootGames ==
    {PlayAll(GameNew, SubSeq(TiePlays, 1, k)) : k \in {7, 8, 9}}
    \cup {PlayAll(GameNew, XWonPlays), PlayAll(GameNew, OWonPlays)}

\* The locations MCTN::play is called with: the two that some root game has
\* empty (each is marked, or the game over, at other nodes: the call panics).
PlayInputs == { <<0, 0>>, <<0, 2>> }

Call(op, node, move, result, ret, results) ==
    [op |-> op, node |-> node, move |-> move, result |-> result, ret |-> ret,
     results |-> results]

NodeIds == 1..Len(nodes)

\* let root = MCTN::new(&game)
Init ==
    /\ \E g \in RootGames : nodes = << MctnNew(g) >>
    /\ err = "none"
    /\ last = Call("new", 1, NoMove, "none", 0, << >>)
    /\ pre = << >>
    /\ game = GameNew
    /\ gpre = GameNew
    /\ sim = SimIdle

\* MCTN::play(parent, row, col)
DoPlay(parent, row, col) ==
    /\ Ready
    /\ sim' = SimIdle
    /\ UNCHANGED <<game, gpre>>
    /\ LET p == MctnPlay(nodes, parent, row, col)
       IN  /\ Len(p.nodes) <= MaxNodes
           /\ nodes' = p.nodes
           /\ err' = p.err
    /\ last' = Call("play", parent, <<row, col>>, "none", 0, << >>)
    /\ pre' = nodes

\* MCTN::expand_node(node)
DoExpand(node) ==
    /\ Ready
    /\ sim' = SimIdle
    /\ UNCHANGED <<game, gpre>>
    /\ LET e == ExpandNode(nodes, node)
       IN  /\ Len(e.nodes) <= MaxNodes
           /\ nodes' = e.nodes
           /\ err' = e.err
    /\ last' = Call("expand_node", node, NoMove, "none", 0, << >>)
    /\ pre' = nodes

\* MCTN::select_node(node)
DoSelect(node) ==
    /\ Ready
    /\ sim' = SimIdle
    /\ UNCHANGED <<game, gpre>>
    /\ last' = Call("select_node", node, NoMove, "none", SelectNode(nodes, node), << >>)
    /\ pre' = nodes
    /\ UNCHANGED <<nodes, err>>

\* MCTN::simulate_playout(node)
DoSimulate(node) ==
    /\ Ready
    /\ sim' = SimIdle
    /\ UNCHANGED <<game, gpre>>
    /\ \E r \in SimulatePlayout(nodes[node].game) :
           last' = Call("simulate_playout", node, NoMove, r, 0, << >>)
    /\ pre' = nodes
    /\ UNCHANGED <<nodes, err>>

\* MCTN::backpropagate(node, game_result)
DoBackpropagate(node, game_result) ==
    /\ Ready
    /\ sim' = SimIdle
    /\ UNCHANGED <<game, gpre>>
    /\ nodes[1].visits < MaxVisits
    /\ LET b == Backpropagate(nodes, node, game_result)
       IN  /\ nodes' = b.nodes
           /\ err' = b.err
    /\ last' = Call("backpropagate", node, NoMove, game_result, 0, << >>)
    /\ pre' = nodes

\* The sequences of results simulate_playout can return for the nodes of
\* targets, in their order.
RECURSIVE PlayoutChoices(_, _, _)
PlayoutChoices(ns, targets, i) ==
    IF i > Len(targets) THEN { << >> }
    ELSE LET rest == PlayoutChoices(ns, targets, i + 1)
             here == SimulatePlayout(ns[targets[i]].game)
         IN  {<<r>> \o t : r \in here, t \in rest}

\* MCTN::mcts_update(root); results are the returns of simulate_playout.
DoMctsUpdate ==
    /\ Ready
    /\ sim' = SimIdle
    /\ UNCHANGED <<game, gpre>>
    /\ LET leaf == SelectNode(nodes, 1)
           e == ExpandNode(nodes, leaf)
           targets == IF e.err # "none" THEN << >> ELSE e.nodes[leaf].children
       IN  /\ Len(e.nodes) <= MaxNodes
           /\ nodes[1].visits + Len(targets) <= MaxVisits
           /\ \E results \in PlayoutChoices(e.nodes, targets, 1) :
               /\ LET u == MctsUpdate(nodes, 1, results)
                  IN  /\ nodes' = u.nodes
                      /\ err' = u.err
               /\ last' = Call("mcts_update", 1, NoMove, "none", leaf, results)
    /\ pre' = nodes

\* The number of empty cells of a game.
Empties(g) ==
    Cardinality({m \in Idx \X Idx : g.board[m[1]][m[2]] = "Empty"})

\* The games that successful plays lead to from the games of frontier, with
\* those of seen.
RECURSIVE GamesFrom(_, _)
GamesFrom(seen, frontier) ==
    IF frontier = {} THEN seen
    ELSE LET played(g) ==
                 {GamePlay(g, m[1], m[2]) : m \in Idx \X Idx}
             next == UNION {{p.game : p \in {q \in played(g) : q.err = "none"}}
                            : g \in frontier}
         IN  GamesFrom(seen \cup next, next \ seen)

\* Every game that Game::new followed by successful plays can give.
ReachableGames == GamesFrom({GameNew}, {GameNew})

\* Faulty variant of the loop body of simulate_playout: there is no clone,
\* the play is made on the game of the node.
PlayoutStepOnNodeGame(ns, node, cloned_game, i) ==
    LET possible_plays == GetPossiblePlays(cloned_game)
        p == GamePlay(cloned_game, possible_plays[i][1], possible_plays[i][2])
    IN  [err |-> IF p.err = "none" THEN "none" ELSE "UnwrapOnErr",
         nodes |-> [ns EXCEPT ![node].game = p.game],
         cloned_game |-> p.game]

\* One turn of the loop of simulate_playout, with i the random index into
\* possible_plays: the play is made on cloned_game and unwrapped; the arena
\* is not written.
PlayoutStep(ns, node, cloned_game, i) ==
    LET possible_plays == GetPossiblePlays(cloned_game)
        p == GamePlay(cloned_game, possible_plays[i][1], possible_plays[i][2])
    IN  [err |-> IF p.err = "none" THEN "none" ELSE "UnwrapOnErr",
         nodes |-> ns,
         cloned_game |-> p.game]

\* MCTN::simulate_playout(node), step by step: the entry, which clones the
\* game of the node.
SimStart(node) ==
    /\ Ready
    /\ sim' = [pc |-> "loop", node |-> node,
               cloned_game |-> nodes[node].game, moves |-> 0]
    /\ last' = Call("simulate_playout", node, NoMove, "none", 0, << >>)
    /\ pre' = nodes
    /\ UNCHANGED <<nodes, err, game, gpre>>

\* One turn of while !cloned_game.is_over(): gen_range panics on an empty
\* range, unwrap panics on a rejected play.
SimStep ==
    /\ err = "none"
    /\ sim.pc = "loop"
    /\ ~IsOver(sim.cloned_game)
    /\ LET possible_plays == GetPossiblePlays(sim.cloned_game)
       IN  IF possible_plays = << >>
           THEN /\ err' = "EmptyRange"
                /\ UNCHANGED <<nodes, sim>>
           ELSE \E i \in 1..Len(possible_plays) :
                    LET s == PlayoutStep(nodes, sim.node, sim.cloned_game, i)
                    IN  /\ nodes' = s.nodes
                        /\ err' = s.err
                        /\ sim' = [sim EXCEPT !.cloned_game = s.cloned_game,
                                              !.moves = @ + 1]
    /\ UNCHANGED <<last, pre, game, gpre>>

\* The exit of the loop: the two asserts, then the state is returned.
SimReturn ==
    /\ err = "none"
    /\ sim.pc = "loop"
    /\ IsOver(sim.cloned_game)
    /\ IF \/ Len(GetPossiblePlays(sim.cloned_game)) # 0
          \/ GetState(sim.cloned_game) = "Ongoing"
       THEN /\ err' = "AssertFailed"
            /\ UNCHANGED <<sim, last>>
       ELSE /\ err' = err
            /\ sim' = [sim EXCEPT !.pc = "done"]
            /\ last' = [last EXCEPT !.result = GetState(sim.cloned_game)]
    /\ UNCHANGED <<nodes, pre, game, gpre>>

\* A tree made by MCTN::new on any game.
InitAnyGame ==
    /\ \E g \in ReachableGames : nodes = << MctnNew(g) >>
    /\ err = "none"
    /\ last = Call("new", 1, NoMove, "none", 0, << >>)
    /\ pre = << >>
    /\ game = GameNew
    /\ gpre = GameNew
    /\ sim = SimIdle

NextPlayout ==
    \/ \E node \in NodeIds : SimStart(node)
    \/ SimStep
    \/ SimReturn

SpecPlayout == InitAnyGame /\ [][NextPlayout]_vars

\* MCTN::expand_node(root) on a tree that MCTN::new has just made.
DoExpandRoot ==
    /\ Ready
    /\ Len(nodes) = 1
    /\ LET e == ExpandNode(nodes, 1)
       IN  /\ nodes' = e.nodes
           /\ err' = e.err
    /\ last' = Call("expand_node", 1, NoMove, "none", 0, << >>)
    /\ pre' = nodes
    /\ UNCHANGED <<game, gpre, sim>>

SpecExpand == InitAnyGame /\ [][DoExpandRoot]_vars

\* The calls that change the tree.
NextTree ==
    \/ \E parent \in NodeIds, m \in PlayInputs : DoPlay(parent, m[1], m[2])
    \/ \E node \in NodeIds : DoExpand(node)
    \/ \E node \in NodeIds, game_result \in GameState :
           DoBackpropagate(node, game_result)
    \/ DoMctsUpdate

\* Every call, the two that only read the tree included.
Next ==
    \/ NextTree
    \/ \E node \in NodeIds : DoSelect(node)
    \/ \E node \in NodeIds : DoSimulate(node)

Spec == Init /\ [][Next]_vars

\* The program without the read-only calls of select_node and
\* simulate_playout made on their own (mcts_update still makes them).
SpecTree == Init /\ [][NextTree]_vars

\* The calls that change the tree, select_node, and simulate_playout step by
\* step.
NextReads ==
    \/ NextTree
    \/ \E node \in NodeIds : DoSelect(node)
    \/ \E node \in NodeIds : SimStart(node)
    \/ SimStep
    \/ SimReturn

SpecReads == Init /\ [][NextReads]_vars

\* ------------------------------------------------- a search
\* let root = MCTN::new(&game) on a game with few empty cells.
InitSearch ==
    /\ \E g \in {h \in ReachableGames : Empties(h) <= MaxEmpty} :
           nodes = << MctnNew(g) >>
    /\ err = "none"
    /\ last = Call("new", 1, NoMove, "none", 0, << >>)
    /\ pre = << >>
    /\ game = GameNew
    /\ gpre = GameNew
    /\ sim = SimIdle

\* MCTN::mcts_update(root) in a search: the tree is as large as the game
\* lets it grow.
DoSearchUpdate ==
    /\ Ready
    /\ LET leaf == SelectNode(nodes, 1)
           e == ExpandNode(nodes, leaf)
           targets == IF e.err # "none" THEN << >> ELSE e.nodes[leaf].children
       IN  \E results \in PlayoutChoices(e.nodes, targets, 1) :
               /\ LET u == MctsUpdate(nodes, 1, results)
                  IN  /\ nodes' = u.nodes
                      /\ err' = u.err
               /\ last' = Call("mcts_update", 1, NoMove, "none", leaf, results)
    /\ pre' = nodes
    /\ UNCHANGED <<game, gpre, sim>>

\* A tree grown from a fresh root by mcts_update calls only.
SpecSearch == InitSearch /\ [][DoSearchUpdate]_vars

\* ------------------------------------------------- a game on its own
\* The row and column indices a caller passes to Game::play (usize): those
\* of the board and the ones just outside it.
PlayIdx == 0..MaxIndex

\* let mut game = Game::new();
InitGame ==
    /\ nodes = << >>
    /\ err = "none"
    /\ last = Call("new", 0, NoMove, "none", 0, << >>)
    /\ pre = << >>
    /\ game = GameNew
    /\ gpre = GameNew
    /\ sim = SimIdle

\* game.play(row_index, col_index); the Err, if any, is kept in last.result.
DoGamePlay(row_index, col_index) ==
    /\ Ready
    /\ LET p == GamePlay(game, row_index, col_index)
       IN  /\ game' = p.game
           /\ last' = Call("game_play", 0, <<row_index, col_index>>, p.err,
                           0, << >>)
    /\ gpre' = game
    /\ UNCHANGED <<nodes, err, pre, sim>>

\* game.get_possible_plays(); the Vec returned is kept in last.results.
DoGetPossiblePlays ==
    /\ Ready
    /\ last' = Call("get_possible_plays", 0, NoMove, "none", 0,
                    GetPossiblePlays(game))
    /\ gpre' = game
    /\ UNCHANGED <<nodes, err, pre, game, sim>>

NextGame ==
    \/ \E row_index \in PlayIdx, col_index \in PlayIdx :
           DoGamePlay(row_index, col_index)
    \/ DoGetPossiblePlays

SpecGame == InitGame /\ [][NextGame]_vars

\* ------------------------------------------------------------ properties
\* The nodes from node up to the root, along the parent references.
RECURSIVE PathToRoot(_, _)
PathToRoot(ns, node) ==
    IF ns[node].parent = 0 THEN {node}
    ELSE {node} \cup PathToRoot(ns, ns[node].parent)

\* The last call was backpropagate with this result, made on the arena pre.
Backpropagated(results) ==
    last.op = "backpropagate" /\ last.result \in results

\* The last call was expand_node.
Expanded == last.op = "expand_node"

\* C1: select_node returns a node that has no children, whatever the tree
\* and its statistics.
C1_SelectReturnsLeaf ==
    last.op = "select_node" => nodes[last.ret].children = << >>

\* C2: one backpropagate(n, r) with a terminal r adds exactly 1 to visits of
\* n and of each of its ancestors up to the root and changes nothing but wins
\* there; every node off that path is unchanged, and no node is added.
C2_BackpropagateVisits ==
    Backpropagated(Terminal) =>
        /\ err = "none"
        /\ Len(nodes) = Len(pre)
        /\ \A i \in 1..Len(pre) :
               IF i \in PathToRoot(pre, last.node)
               THEN nodes[i] = [pre[i] EXCEPT !.visits = @ + 1,
                                              !.wins = nodes[i].wins]
               ELSE nodes[i] = pre[i]

\* A result was backpropagated from a grandchild of the root.
C2_Witness ==
    /\ Backpropagated(Terminal)
    /\ pre[last.node].parent # 0
    /\ pre[pre[last.node].parent].parent # 0

\* C3: with a win backpropagated, a node of the path gets wins += 1.0 iff the
\* winner is not on move in the node's own game, and wins += 0 iff it is.
C3_WinCredit ==
    Backpropagated({"XWon", "OWon"}) =>
        LET winner == IF last.result = "XWon" THEN "TurnX" ELSE "TurnO"
        IN  \A i \in PathToRoot(pre, last.node) :
                /\ pre[i].game.turn # winner <=> nodes[i].wins = pre[i].wins + 2
                /\ pre[i].game.turn = winner <=> nodes[i].wins = pre[i].wins

\* A win was backpropagated along a path holding a credited node and a node
\* that got the visit only.
C3_Witness ==
    /\ Backpropagated({"XWon", "OWon"})
    /\ \E i, j \in PathToRoot(pre, last.node) :
           /\ nodes[i].wins = pre[i].wins + 2
           /\ nodes[j].wins = pre[j].wins
           /\ nodes[j].visits = pre[j].visits + 1

\* C4: with Tie backpropagated, every node of the path gets wins += 0.5 and
\* visits += 1, whoever is on move there.
C4_TieCredit ==
    Backpropagated({"Tie"}) =>
        \A i \in PathToRoot(pre, last.node) :
            /\ nodes[i].wins = pre[i].wins + 1
            /\ nodes[i].visits = pre[i].visits + 1

\* A tie was backpropagated along a path with X on move at one node and O on
\* move at another.
C4_Witness ==
    /\ Backpropagated({"Tie"})
    /\ \E i, j \in PathToRoot(pre, last.node) :
           pre[i].game.turn = "TurnX" /\ pre[j].game.turn = "TurnO"

\* C5: backpropagate with Ongoing panics, and no node has been changed.
C5_OngoingPanics ==
    Backpropagated({"Ongoing"}) =>
        err = "BackpropagateOngoing" /\ nodes = pre

\* Ongoing was backpropagated from a node that has ancestors.
C5_Witness ==
    /\ Backpropagated({"Ongoing"})
    /\ pre[last.node].parent # 0
    /\ err # "none"

\* C6: every node has 0 <= wins <= visits (wins is in halves).
C6_WinsWithinVisits ==
    \A i \in NodeIds :
        /\ 0 <= nodes[i].wins
        /\ nodes[i].wins <= 2 * nodes[i].visits

\* Some node was credited a full win on each of several visits.
C6_Witness ==
    \E i \in NodeIds :
        nodes[i].visits >= 2 /\ nodes[i].wins = 2 * nodes[i].visits

\* C7: expand_node on a childless node with a game that is not over adds one
\* child per move of get_possible_plays, in that order, each with zero
\* statistics, no children, its move, the expanded node as parent and the
\* parent's game after the move.
C7_ExpandChildren ==
    (/\ Expanded
     /\ pre[last.node].children = << >>
     /\ ~IsOver(pre[last.node].game)) =>
        LET plays == GetPossiblePlays(pre[last.node].game)
            kids == nodes[last.node].children
        IN  /\ err = "none"
            /\ Len(kids) = Len(plays)
            /\ Len(nodes) = Len(pre) + Len(plays)
            /\ \A j \in 1..Len(plays) :
                   /\ kids[j] > Len(pre)
                   /\ \A h \in 1..Len(plays) : h # j => kids[h] # kids[j]
                   /\ nodes[kids[j]] =
                          [game |-> GamePlay(pre[last.node].game,
                                             plays[j][1], plays[j][2]).game,
                           wins |-> 0, visits |-> 0, children |-> << >>,
                           move_from_parent |-> plays[j],
                           parent |-> last.node]

\* A childless node with at least two legal moves was expanded.
C7_Witness ==
    /\ Expanded
    /\ err = "none"
    /\ pre[last.node].children = << >>
    /\ Len(nodes[last.node].children) >= 2

\* C8: expand_node on a node that has a child panics and leaves the tree as
\* it was.
C8_ExpandTwicePanics ==
    (Expanded /\ pre[last.node].children # << >>) =>
        err = "ExpandNonLeaf" /\ nodes = pre

\* expand_node was called on a node that had children.
C8_Witness ==
    /\ Expanded
    /\ pre[last.node].children # << >>
    /\ err # "none"

\* C9: expand_node on a childless node whose game is over does not fail and
\* changes nothing.
C9_ExpandTerminalNoOp ==
    (/\ Expanded
     /\ pre[last.node].children = << >>
     /\ IsOver(pre[last.node].game)) =>
        err = "none" /\ nodes = pre

\* expand_node was called on a childless node below the root whose game is
\* over.
C9_Witness ==
    /\ Expanded
    /\ last.node # 1
    /\ pre[last.node].children = << >>
    /\ IsOver(pre[last.node].game)

\* C10: when mcts_update selects a leaf whose game is over, the leaf and each
\* of its ancestors gain exactly one visit.
C10_TerminalLeafVisited ==
    (last.op = "mcts_update" /\ IsOver(pre[last.ret].game)) =>
        \A i \in PathToRoot(pre, last.ret) :
            nodes[i].visits = pre[i].visits + 1


\* The last call was mcts_update and select_node gave it a childless node
\* whose game was not over.
UpdatedOpenLeaf ==
    /\ last.op = "mcts_update"
    /\ pre[last.ret].children = << >>
    /\ ~IsOver(pre[last.ret].game)

\* C11: when the leaf that mcts_update selects has a game that is not over,
\* with k legal moves, the call adds k children to it, each with visits = 1;
\* the leaf and each of its ancestors gain exactly k visits, and every other
\* node that existed is unchanged.
C11_UpdateExpandsLeaf ==
    UpdatedOpenLeaf =>
        LET leaf == last.ret
            k == Len(GetPossiblePlays(pre[leaf].game))
            path == PathToRoot(pre, leaf)
        IN  /\ err = "none"
            /\ Len(last.results) = k
            /\ Len(nodes) = Len(pre) + k
            /\ nodes[leaf].children = [j \in 1..k |-> Len(pre) + j]
            /\ \A j \in 1..k :
                   /\ nodes[Len(pre) + j].visits = 1
                   /\ nodes[Len(pre) + j].parent = leaf
                   /\ nodes[Len(pre) + j].children = << >>
            /\ \A i \in 1..Len(pre) :
                   IF i \in path
                   THEN /\ nodes[i].visits = pre[i].visits + k
                        /\ nodes[i].game = pre[i].game
                        /\ nodes[i].parent = pre[i].parent
                        /\ nodes[i].move_from_parent = pre[i].move_from_parent
                        /\ i # leaf => nodes[i].children = pre[i].children
                   ELSE nodes[i] = pre[i]

\* mcts_update selected a leaf with two legal moves.
C11_Witness ==
    /\ UpdatedOpenLeaf
    /\ Len(GetPossiblePlays(pre[last.ret].game)) = 2
    /\ Len(nodes) = Len(pre) + 2


\* C12: simulate_playout on any reachable game does not panic, never plays
\* more moves than the game of the node had empty cells, and returns XWon,
\* OWon or Tie; on a game that is over it plays no move and returns the state
\* of that game.
C12_PlayoutEnds ==
    sim.pc # "idle" =>
        LET start == pre[sim.node].game
        IN  /\ err = "none"
            /\ sim.moves + Empties(sim.cloned_game) = Empties(start)
            /\ sim.moves <= Empties(start)
            /\ sim.pc = "done" =>
                   /\ last.result \in Terminal
                   /\ IsOver(start) =>
                          sim.moves = 0 /\ last.result = GetState(start)

\* A playout from the new game that filled the board and ended in a tie.
C12_Witness ==
    /\ sim.pc = "done"
    /\ pre[sim.node].game = GameNew
    /\ sim.moves = 9
    /\ last.result = "Tie"

\* C13: select_node, expand_node and simulate_playout leave wins and visits
\* of every node that existed unchanged, and simulate_playout leaves the
\* whole arena unchanged, the game and the children of its node included.
C13_ReadsKeepStatistics ==
    /\ last.op \in {"select_node", "expand_node", "simulate_playout"} =>
           /\ Len(nodes) >= Len(pre)
           /\ \A i \in 1..Len(pre) :
                  /\ nodes[i].wins = pre[i].wins
                  /\ nodes[i].visits = pre[i].visits
    /\ last.op = "simulate_playout" => nodes = pre

\* simulate_playout returned after playing moves from a node with children
\* in a tree with statistics.
C13_Witness ==
    /\ last.op = "simulate_playout"
    /\ sim.pc = "done"
    /\ sim.moves > 0
    /\ nodes[sim.node].children # << >>
    /\ nodes[1].visits > 0

\* C14: over an mcts_update, a child list that was not empty stays as it
\* was, every node keeps its game and its move_from_parent, and no node's
\* wins or visits decrease.
C14_UpdateKeepsChildren ==
    last.op = "mcts_update" =>
        /\ Len(nodes) >= Len(pre)
        /\ \A i \in 1..Len(pre) :
               /\ pre[i].children # << >> =>
                      nodes[i].children = pre[i].children
               /\ nodes[i].game = pre[i].game
               /\ nodes[i].move_from_parent = pre[i].move_from_parent
               /\ nodes[i].wins >= pre[i].wins
               /\ nodes[i].visits >= pre[i].visits

\* mcts_update grew a tree in which the root already had a child with
\* statistics.
C14_Witness ==
    /\ last.op = "mcts_update"
    /\ Len(nodes) > Len(pre)
    /\ pre[1].children # << >>
    /\ \E i \in 2..Len(pre) : pre[i].visits > 0

\* The nodes that have node i in their child list, and how often i occurs in
\* the child list of node p.
ParentsOf(i) ==
    {p \in 1..Len(nodes) : \E j \in 1..Len(nodes[p].children) :
                               nodes[p].children[j] = i}
Occurrences(p, i) ==
    Cardinality({j \in 1..Len(nodes[p].children) : nodes[p].children[j] = i})

\* C15: exactly one node, the root, has no parent and no move_from_parent;
\* every other node is in the child list of exactly one node, once, its
\* parent reference is that node, and its game is that node's game after
\* move_from_parent.
C15_TreeShape ==
    /\ {i \in 1..Len(nodes) : nodes[i].parent = 0} = {1}
    /\ {i \in 1..Len(nodes) : nodes[i].move_from_parent = NoMove} = {1}
    /\ ParentsOf(1) = {}
    /\ \A i \in 2..Len(nodes) :
           LET p == nodes[i].parent
               m == nodes[i].move_from_parent
           IN  /\ ParentsOf(i) = {p}
               /\ Occurrences(p, i) = 1
               /\ GamePlay(nodes[p].game, m[1], m[2]).err = "none"
               /\ nodes[i].game = GamePlay(nodes[p].game, m[1], m[2]).game

\* A tree with a grandchild of the root.
C15_Witness ==
    \E i \in 2..Len(nodes) :
        /\ nodes[i].parent # 1
        /\ nodes[nodes[i].parent].parent = 1

\* C16: select_node on a node with two childless children, one with the
\* statistics of one backpropagated win (wins 1.0, visits 1) and one with
\* wins 0 and visits 0, returns the former, in either order of the two.
C16_SelectsCreditedChild ==
    (last.op = "select_node" /\ Len(nodes[last.node].children) = 2) =>
        \A a, b \in {nodes[last.node].children[j] : j \in 1..2} :
            (/\ nodes[a].children = << >>
             /\ nodes[b].children = << >>
             /\ nodes[a].wins = WinCredit
             /\ nodes[a].visits = 1
             /\ nodes[b].wins = 0
             /\ nodes[b].visits = 0) =>
                last.ret = a

\* select_node returned the second of two children, the one with the win.
C16_Witness ==
    /\ last.op = "select_node"
    /\ Len(nodes[last.node].children) = 2
    /\ last.ret = nodes[last.node].children[2]
    /\ nodes[last.ret].wins = WinCredit
    /\ nodes[last.ret].visits = 1
    /\ nodes[nodes[last.node].children[1]].visits = 0

\* C17: expand_node on the root of a new game gives 9 children with
\* pairwise different games, each Ongoing, with 8 legal moves and O on move;
\* every child that expand_node makes has the other player on move and one
\* empty cell less than its parent.
C17_ExpandNewGame ==
    Expanded =>
        LET parent == last.node
            made == (Len(pre) + 1)..Len(nodes)
        IN  /\ pre[parent].game = GameNew =>
                   /\ err = "none"
                   /\ Len(nodes[parent].children) = 9
                   /\ Cardinality({nodes[c].game : c \in made}) = 9
                   /\ \A c \in made :
                          /\ GetState(nodes[c].game) = "Ongoing"
                          /\ Len(GetPossiblePlays(nodes[c].game)) = 8
                          /\ GetTurn(nodes[c].game) = "TurnO"
            /\ \A c \in made :
                   /\ GetTurn(nodes[c].game) # GetTurn(pre[parent].game)
                   /\ Empties(nodes[c].game) = Empties(pre[parent].game) - 1

\* The root of a new game was expanded.
C17_Witness ==
    /\ Expanded
    /\ pre[last.node].game = GameNew
    /\ Len(nodes) = 10

\* The position of a location in the order upper left to bottom right.
RowMajor(m) == 3 * m[1] + m[2]

\* C19: on every reachable game get_possible_plays returns the empty list
\* exactly when the game is over; on an Ongoing game it returns the empty
\* cells, each once, upper left to bottom right, and at least one.
C19_PossiblePlays ==
    last.op = "get_possible_plays" =>
        LET plays == last.results
        IN  /\ (plays = << >>) <=> IsOver(game)
            /\ GetState(game) = "Ongoing" =>
                   /\ {plays[j] : j \in 1..Len(plays)} =
                          {m \in Idx \X Idx : game.board[m[1]][m[2]] = "Empty"}
                   /\ \A j, k \in 1..Len(plays) :
                          j < k => RowMajor(plays[j]) < RowMajor(plays[k])
                   /\ Len(plays) >= 1

\* get_possible_plays was called on an ongoing game with two marked cells.
C19_Witness ==
    /\ last.op = "get_possible_plays"
    /\ GetState(game) = "Ongoing"
    /\ Len(last.results) = 7

\* C20: Game::play returns an error and leaves the game as it was when the
\* location is outside the board, when the cell is marked, and, with
\* GameIsOver, whenever the game is over.
C20_RejectedPlay ==
    last.op = "game_play" =>
        LET row_index == last.move[1]
            col_index == last.move[2]
            inside == row_index \in Idx /\ col_index \in Idx
        IN  /\ IsOver(gpre) => last.result = "GameIsOver"
            /\ (~IsOver(gpre) /\ ~inside) => last.result = "OutOfBound"
            /\ (~IsOver(gpre) /\ inside
                    /\ gpre.board[row_index][col_index] # "Empty") =>
                   last.result = "NonEmptyCell"
            /\ last.result # "none" => game = gpre

\* An empty cell was played after the game was over.
C20_Witness ==
    /\ last.op = "game_play"
    /\ IsOver(gpre)
    /\ GetCell(gpre.board, last.move[1], last.move[2]) = "Empty"
    /\ last.result = "GameIsOver"
    /\ game = gpre

\* C21: a new game has X on move; every successful Game::play hands the
\* turn to the other player, the play that ends the game included, so
\* get_turn is never the player whose mark was placed last.
C21_TurnFlips ==
    /\ last.op = "new" => GetTurn(game) = "TurnX"
    /\ (last.op = "game_play" /\ last.result = "none") =>
           LET placed == game.board[last.move[1]][last.move[2]]
           IN  /\ GetTurn(game) # GetTurn(gpre)
               /\ placed = (IF GetTurn(gpre) = "TurnX" THEN "X" ELSE "O")
               /\ GetTurn(game) = (IF placed = "X" THEN "TurnO" ELSE "TurnX")
    /\ (last.op = "game_play" /\ last.result # "none") =>
           GetTurn(game) = GetTurn(gpre)

\* X made the play that won the game.
C21_Witness ==
    /\ last.op = "game_play"
    /\ last.result = "none"
    /\ GetState(gpre) = "Ongoing"
    /\ GetState(game) = "XWon"
    /\ GetTurn(game) = "TurnO"

\* The board holds three of mark in one row, one column or one diagonal.
HasLine(cells, mark) ==
    \/ \E r \in Idx : \A c \in Idx : cells[r][c] = mark
    \/ \E c \in Idx : \A r \in Idx : cells[r][c] = mark
    \/ \A d \in Idx : cells[d][d] = mark
    \/ \A d \in Idx : cells[d][2 - d] = mark

\* C22: on every game reached by plays from a new game the state is XWon
\* exactly when the board holds a line of X, OWon exactly when it holds a
\* line of O, Tie exactly when the board is full without a line, and Ongoing
\* otherwise.
C22_StateOfBoard ==
    LET x == HasLine(game.board, "X")
        o == HasLine(game.board, "O")
        full == Empties(game) = 0
    IN  /\ GetState(game) = "XWon" <=> x
        /\ GetState(game) = "OWon" <=> o
        /\ GetState(game) = "Tie" <=> (full /\ ~x /\ ~o)
        /\ GetState(game) = "Ongoing" <=> (~full /\ ~x /\ ~o)

\* The ninth play filled the board without a line.
C22_Witness ==
    /\ last.op = "game_play"
    /\ last.result = "none"
    /\ Empties(game) = 0
    /\ GetState(game) = "Tie"

\* The score select_node computes for child c of node p is a number
\* strictly greater than 0.
PositiveScore(p, c) ==
    Gt(Uct(nodes[p].visits, nodes[c].wins, nodes[c].visits), Num(0))

\* The nodes select_node went into on its way from last.node to last.ret.
Descended == PathToRoot(nodes, last.ret) \ PathToRoot(nodes, last.node)

C24_UpdateNeverPanics ==
    /\ err = "none"
    /\ nodes[SelectNode(nodes, 1)].children = << >>
    /\ last.op = "mcts_update" =>
           /\ pre[last.ret].children = << >>
           /\ \A j \in 1..Len(last.results) : last.results[j] \in Terminal

\* A later mcts_update went down to a child of the root and expanded it.
C24_Witness ==
    /\ last.op = "mcts_update"
    /\ err = "none"
    /\ Len(nodes) > Len(pre)
    /\ pre[last.ret].parent = 1

\* The sums of visits and of wins (in halves) over the children of node n,
\* from position j of its child list on.
RECURSIVE ChildVisits(_, _)
ChildVisits(n, j) ==
    IF j > Len(nodes[n].children) THEN 0
    ELSE nodes[nodes[n].children[j]].visits + ChildVisits(n, j + 1)

RECURSIVE ChildWins(_, _)
ChildWins(n, j) ==
    IF j > Len(nodes[n].children) THEN 0
    ELSE nodes[nodes[n].children[j]].wins + ChildWins(n, j + 1)

\* C25: in a tree grown by mcts_update calls only, visits of the root is the
\* sum of visits of its children, visits of any other node with children is
\* 1 plus that sum, and every node but the root has visits >= 1.
C25_VisitSums ==
    /\ nodes[1].visits = ChildVisits(1, 1)
    /\ \A n \in 2..Len(nodes) :
           /\ nodes[n].visits >= 1
           /\ nodes[n].children # << >> =>
                  nodes[n].visits = 1 + ChildVisits(n, 1)

\* A tree with a grandchild of the root, after at least two mcts_update
\* calls.
C25_Witness ==
    /\ last.op = "mcts_update"
    /\ \E n \in 2..Len(nodes) :
           /\ nodes[n].children # << >>
           /\ nodes[n].visits > 1
    /\ nodes[1].visits > 2

\* C26: in a tree grown by mcts_update calls only, wins of the root plus
\* the sum of wins of its children equals visits of the root (wins is in
\* halves, so twice the visits).
C26_WinSums ==
    nodes[1].wins + ChildWins(1, 1) = WinCredit * nodes[1].visits

\* After mcts_update calls the root and its children hold results, a tie
\* among them.
C26_Witness ==
    /\ last.op = "mcts_update"
    /\ nodes[1].visits >= 2
    /\ ChildWins(1, 1) > 0
    /\ \E j \in 1..Len(last.results) : last.results[j] = "Tie"
=============================================================================
